---- MODULE Spec2Model ----
(***************************************************************************)
(* BuildCharts.py: one linear pass over a survey sheet.  The sheet is read, *)
(* its headers cleaned, five columns coerced to numbers, six figures shown *)
(* and seven percentage gains computed and printed.                        *)
(*                                                                         *)
(* Numbers are exact rationals n/d together with the IEEE special values   *)
(* inf, -inf and nan, which is what decides finiteness, sign and the       *)
(* literal cases; rounding of the last binary digit is not represented.    *)
(*                                                                         *)
(* What the libraries do is taken from their documented behaviour:         *)
(*   - groupby().first()/.last() give the first/last present cell of each  *)
(*     group in row order; groupby drops rows whose key is missing and     *)
(*     sorts the keys; Series.mean() skips nan;                            *)
(*   - x / 0 is inf with the sign of x, 0 / 0 is nan, nothing is raised;   *)
(*   - make_interp_spline(x, y, k=3) raises unless x holds at least four   *)
(*     strictly increasing points;                                         *)
(*   - the heatmap raises on a grid without any cell;                      *)
(*   - comparing or dividing text and numbers raises TypeError.            *)
(* The sheets considered hold a number in every Day cell and a number or   *)
(* nothing in every heart-rate cell.                                       *)
(***************************************************************************)
EXTENDS Integers, Sequences, FiniteSets

(* ---------------------------------------------------------------- bounds *)
NumCandidates == 2
MaxDays == 5
MaxLen == 3

(* ------------------------------------------------------- program constants *)
SplineDegree == 3
SplinePoints == 300
PostureScale == 5
InitialPosture == 0

(* ----------------------------------------------------------------- values *)
(* One shape for every cell and every computed number:                      *)
(*   t = "num": the rational n/d (d > 0, lowest terms)                      *)
(*   t = "inf": n is the sign, 1 or -1                                      *)
(*   t = "nan": a missing cell or a not-a-number result                     *)
(*   t = "str": the text s                                                  *)
Rat(a, b) == [t |-> "num", n |-> a, d |-> b, s |-> ""]
Num(a) == Rat(a, 1)
NaN == [t |-> "nan", n |-> 0, d |-> 0, s |-> ""]
Inf(sgn) == [t |-> "inf", n |-> sgn, d |-> 0, s |-> ""]
Str(x) == [t |-> "str", n |-> 0, d |-> 0, s |-> x]

IsNum(v) == v.t = "num"
IsNaN(v) == v.t = "nan"
IsStr(v) == v.t = "str"
IsFinite(v) == v.t = "num"

Abs(a) == IF a < 0 THEN 0 - a ELSE a

RECURSIVE GCD(_, _)
GCD(a, b) == IF b = 0 THEN a ELSE GCD(b, a % b)

Norm(a, b) ==
    LET g == GCD(Abs(a), Abs(b))
        sg == IF b < 0 THEN 0 - 1 ELSE 1
    IN Rat((sg * a) \div g, (sg * b) \div g)

Neg(v) ==
    CASE v.t = "num" -> Rat(0 - v.n, v.d)
      [] v.t = "inf" -> Inf(0 - v.n)
      [] OTHER -> NaN

FAdd(a, b) ==
    CASE IsNaN(a) \/ IsNaN(b) -> NaN
      [] a.t = "inf" /\ b.t = "inf" -> IF a.n = b.n THEN a ELSE NaN
      [] a.t = "inf" -> a
      [] b.t = "inf" -> b
      [] OTHER -> Norm(a.n * b.d + b.n * a.d, a.d * b.d)

FSub(a, b) == FAdd(a, Neg(b))

Sign(x) == IF x > 0 THEN 1 ELSE IF x < 0 THEN 0 - 1 ELSE 0

FMul(a, b) ==
    CASE IsNaN(a) \/ IsNaN(b) -> NaN
      [] a.t = "inf" \/ b.t = "inf" ->
            IF Sign(a.n) * Sign(b.n) = 0 THEN NaN ELSE Inf(Sign(a.n) * Sign(b.n))
      [] OTHER -> Norm(a.n * b.n, a.d * b.d)

FDiv(a, b) ==
    CASE IsNaN(a) \/ IsNaN(b) -> NaN
      [] a.t = "inf" /\ b.t = "inf" -> NaN
      [] a.t = "inf" -> Inf(IF b.n < 0 THEN 0 - a.n ELSE a.n)
      [] b.t = "inf" -> Num(0)
      [] b.n = 0 -> IF a.n = 0 THEN NaN ELSE Inf(Sign(a.n))
      [] OTHER -> Norm(a.n * b.d, a.d * b.n)

(* a <= b on finite numbers *)
Leq(a, b) == a.n * b.d <= b.n * a.d

(* ---------------------------------------------------------------- headers *)
(* A header is a sequence of characters.  The four characters the cleaning  *)
(* looks at are single elements; a run of other characters is written as    *)
(* one element ("Energy"), which the cleaning never looks inside.           *)
Whitespace == {" ", "\n"}
Deleted == {"\n", "[", "]"}

Field == {"Candidate", "Day", "Energy", "Mood", "Clarity", "Anxiety", "Pain",
          "HeartRate", "Posture"}

(* the column names the script asks for *)
ColumnName(f) ==
    CASE f = "Candidate" -> << "Candidate" >>
      [] f = "Day" -> << "Day" >>
      [] f = "Energy" -> << "Energy", " ", "Level", " ", "0", " ", "-", " ", "10", " " >>
      [] f = "Mood" -> << "Mood", " ", "0", " ", "-", " ", "10", " " >>
      [] f = "Clarity" -> << "Mental", " ", "Clarity", " ", "0", " ", "-", " ", "10", " " >>
      [] f = "Anxiety" -> << "Anxiety", " ", "0", " ", "-", " ", "10", " " >>
      [] f = "Pain" ->
            << "Pain", " ", "During", " ", "Yoga", " ", "0", " ", "-", " ", "10", " " >>
      [] f = "HeartRate" ->
            << "Max", " ", "Heart", " ", "Rate", " ", "During", " ", "Walk/Run" >>
      [] f = "Posture" ->
            << "Overall", " ", "Posture", " ", "Improvement", " ", "1", " ", "-5", " ",
               "degrees", " " >>

RECURSIVE LStrip(_)
LStrip(h) == IF h # << >> /\ Head(h) \in Whitespace THEN LStrip(Tail(h)) ELSE h

RECURSIVE RStrip(_)
RStrip(h) ==
    IF h # << >> /\ h[Len(h)] \in Whitespace THEN RStrip(SubSeq(h, 1, Len(h) - 1)) ELSE h

(* str.strip() *)
Strip(h) == RStrip(LStrip(h))

IsKept(ch) == ch \notin Deleted

RECURSIVE ReplaceFirst(_)
(* only the first match is deleted *)
ReplaceFirst(h) ==
    IF h = << >> THEN h
    ELSE IF Head(h) \in Deleted THEN Tail(h)
    ELSE << Head(h) >> \o ReplaceFirst(Tail(h))

(* str.replace(r'\n|\[|\]', '', regex=True): every match is deleted *)
ReplaceAll(h) == SelectSeq(h, IsKept)

(* df_new.columns.str.strip().str.replace(...), for one header *)
CleanHeader(h) == ReplaceAll(Strip(h))

(* ------------------------------------------------------------ input sheets *)
(* A row of the sheet: its index label and one cell per column.             *)
Row(c, day, m, hr, post) ==
    [idx |-> 0, Candidate |-> c, Day |-> Num(day), Energy |-> m, Mood |-> m,
     Clarity |-> m, Anxiety |-> m, Pain |-> m, HeartRate |-> hr, Posture |-> post]

Deg1 == Str("~1 degree")
Deg3 == Str("~ greater than 3 degree")
Deg5 == Str("~ greater than 5 degrees")
OtherCategory == Str("no change")

(* What one candidate's rows look like: n days; the five 0-10 columns hold  *)
(* f on the first day, l on the last and 10 + day in between (or nothing    *)
(* at all when blank); the heart rate is missing on the days in miss; late  *)
(* says the last day's row was entered above the others.                    *)
Base(n) ==
    [n |-> n, late |-> FALSE, f |-> Num(10), l |-> Num(15), blank |-> FALSE,
     miss |-> {}, post |-> "deg3"]

FirstLast ==
    { << Str("10"), Num(5) >>, << Num(10), NaN >>, << Num(0), Num(0) >>,
      << Num(0), Num(5) >>, << Str("n/a"), Num(15) >> }

PostOptions == {"deg1", "deg3", "rising", "other", "mixed", "nan"}

Profiles ==
    {Base(n) : n \in {SplineDegree + 1, MaxDays}}
    \cup {[Base(MaxDays) EXCEPT !.f = p[1], !.l = p[2]] : p \in FirstLast}
    \cup {[Base(MaxDays) EXCEPT !.late = TRUE, !.miss = m] : m \in {{}, {MaxDays}}}
    \cup {[Base(MaxDays) EXCEPT !.miss = m] : m \in {{1}, {2, 3}}}
    \cup {[Base(MaxDays) EXCEPT !.blank = TRUE]}
    \cup {[Base(MaxDays) EXCEPT !.post = q] : q \in PostOptions}

DayAt(p, i) == IF p.late THEN (IF i = 1 THEN p.n ELSE i - 1) ELSE i

MetricAt(p, day) ==
    IF p.blank THEN NaN
    ELSE IF day = 1 THEN p.f
    ELSE IF day = p.n THEN p.l
    ELSE Num(10 + day)

HeartRateAt(p, day) ==
    IF day \in p.miss THEN NaN
    ELSE IF IsNum(MetricAt(p, day)) THEN MetricAt(p, day)
    ELSE Num(10 + day)

PostureAt(p, day) ==
    CASE p.post = "deg1" -> Deg1
      [] p.post = "deg3" -> Deg3
      [] p.post = "rising" -> IF day = 1 THEN Deg1 ELSE IF day = p.n THEN Deg5 ELSE Deg3
      [] p.post = "other" -> OtherCategory
      [] p.post = "mixed" -> IF day = 1 THEN OtherCategory ELSE Deg1
      [] p.post = "nan" -> NaN

Block(c, p) ==
    [i \in 1 .. p.n |->
        Row(c, DayAt(p, i), MetricAt(p, DayAt(p, i)), HeartRateAt(p, DayAt(p, i)),
            PostureAt(p, DayAt(p, i)))]

(* a row whose candidate cell is empty *)
StrayRow == Row(NaN, 1, Num(10), Num(11), Deg3)

RECURSIVE Blocks(_, _, _)
Blocks(ps, order, k) ==
    IF k > Len(order) THEN << >>
    ELSE Block(Num(order[k]), ps[order[k]]) \o Blocks(ps, order, k + 1)

Reindex(rows) == [i \in 1 .. Len(rows) |-> [rows[i] EXCEPT !.idx = i - 1]]

Ascending(m) == [i \in 1 .. m |-> i]
Descending(m) == [i \in 1 .. m |-> m + 1 - i]

Sheet(ps, order, stray) ==
    Reindex(Blocks(ps, order, 1) \o (IF stray THEN << StrayRow >> ELSE << >>))

(* the profiles that differ only in the posture column *)
PostureProfiles == {[Base(MaxDays) EXCEPT !.post = q] : q \in PostOptions}

(* What a sheet holds: the profile of each of its candidates, the order in  *)
(* which the candidates were entered, and whether a row without a candidate *)
(* follows.                                                                 *)
Content(ps, order, stray) == [ps |-> ps, order |-> order, stray |-> stray]

Rows(content) == Sheet(content.ps, content.order, content.stray)

(* the plain sheet: every candidate has MaxDays full rows *)
PlainSheet ==
    Content([c \in 1 .. NumCandidates |-> Base(MaxDays)], Ascending(NumCandidates), FALSE)

(* Raw header texts.  "good" cleans to the name the script asks for, "plain" *)
(* is that name typed as it is, "absent" is some other column.              *)
RawHeader(f, how) ==
    CASE how = "good" -> << " ", "[" >> \o ColumnName(f) \o << "]" >>
      [] how = "plain" -> ColumnName(f)
      [] how = "absent" -> << "Notes" >>

GoodHeaders == [f \in Field |-> RawHeader(f, "good")]

HeaderRows ==
    {GoodHeaders}
    \cup {[GoodHeaders EXCEPT ![f] = RawHeader(f, how)] :
            f \in Field, how \in {"plain", "absent"}}

(* ------------------------------------------------------------------ state *)
VARIABLES
    xls,                    \* the file: whether it exists, its header row, its rows
    pc,                     \* the statement the script is at
    err,                    \* the exception that ended the run, "" while running
    columns,                \* df_new.columns
    cleanings,              \* how many times the header cleaning was applied
    df_new,                 \* the observation table
    candidates,             \* line 30
    colors,                 \* line 31: one colour per candidate
    df_cleaned_heart_rate,  \* line 34
    energy_pivot,           \* line 37
    df_candidate,           \* lines 59, 72, 86: the slice of the candidate in hand
    x_new,                  \* line 87
    curves,                 \* curves drawn on the heart-rate figure so far
    figures,                \* the figures shown, in the order of plt.show()
    overall_posture_correction_normalized,
    categories, N, values, angles,
    initial, final,         \* the initial_* and final_* series, by metric
    change,                 \* heart_rate_reduction, energy_increase, ..., by metric
    percentage_gains,       \* the dict, as its items in insertion order
    stdout                  \* what print() wrote

vars ==
    << xls, pc, err, columns, cleanings, df_new, candidates, colors,
       df_cleaned_heart_rate, energy_pivot, df_candidate, x_new, curves, figures,
       overall_posture_correction_normalized, categories, N, values, angles,
       initial, final, change, percentage_gains, stdout >>

(* ----------------------------------------------------- dataframe operators *)
(* df[name]: the column whose header is that name, KeyError when none is    *)
HasColumn(f) == \E g \in Field : columns[g] = ColumnName(f)
FieldOf(f) == CHOOSE g \in Field : columns[g] = ColumnName(f)

SeqToSet(q) == {q[i] : i \in DOMAIN q}

(* df.dropna(): the rows with no missing cell at all *)
DropNaAnyColumn(df, f) ==
    SelectSeq(df, LAMBDA r : \A g \in Field \ {"Posture"} : ~IsNaN(r[g]))

(* df.dropna(subset=[f]): the rows whose cell in column f is present, in    *)
(* df's order                                                               *)
DropNa(df, f) == LET g == FieldOf(f) IN SelectSeq(df, LAMBDA r : ~IsNaN(r[g]))

(* df[df[f] == v]; a missing value equals nothing, itself included *)
WhereEq(df, f, v) ==
    LET g == FieldOf(f) IN SelectSeq(df, LAMBDA r : ~IsNaN(v) /\ r[g] = v)

RECURSIVE Unique(_, _)
(* Series.unique(): the values in first-seen order, a missing value once *)
Unique(q, seen) ==
    IF q = << >> THEN << >>
    ELSE IF Head(q) \in seen THEN Unique(Tail(q), seen)
    ELSE << Head(q) >> \o Unique(Tail(q), seen \cup {Head(q)})

ColumnOf(df, f) == LET g == FieldOf(f) IN [i \in DOMAIN df |-> df[i][g]]

(* groupby('Candidate'): the keys are the present candidate values *)
GroupKeys(df) ==
    LET g == FieldOf("Candidate")
    IN {df[i][g].n : i \in {j \in DOMAIN df : IsNum(df[j][g])}}
Group(df, k) == WhereEq(df, "Candidate", Num(k))

RECURSIVE FirstPresent(_)
FirstPresent(q) ==
    IF q = << >> THEN NaN ELSE IF ~IsNaN(Head(q)) THEN Head(q) ELSE FirstPresent(Tail(q))

RECURSIVE LastPresent(_)
LastPresent(q) ==
    IF q = << >> THEN NaN
    ELSE IF ~IsNaN(q[Len(q)]) THEN q[Len(q)]
    ELSE LastPresent(SubSeq(q, 1, Len(q) - 1))

(* groupby('Candidate')[f].first() and .last(): a series indexed by candidate *)
GroupFirst(df, f) == [k \in GroupKeys(df) |-> FirstPresent(ColumnOf(Group(df, k), f))]
GroupLast(df, f) == [k \in GroupKeys(df) |-> LastPresent(ColumnOf(Group(df, k), f))]

(* the greatest of a non-empty set of finite numbers *)
MaxOf(S) == CHOOSE v \in S : \A w \in S : Leq(w, v)

(* max of one group's cells: missing cells are skipped; numbers and text    *)
(* cannot be compared with each other                                       *)
MaxRaises(q) == (\E i \in DOMAIN q : IsStr(q[i])) /\ (\E i \in DOMAIN q : IsNum(q[i]))
MaxPresent(q) ==
    LET nums == {q[i] : i \in {j \in DOMAIN q : IsNum(q[j])}}
        strs == {q[i] : i \in {j \in DOMAIN q : IsStr(q[j])}}
    IN IF nums # {} THEN MaxOf(nums)
       ELSE IF strs # {} THEN CHOOSE v \in strs : TRUE
       ELSE NaN

GroupMaxRaises(df, f) == \E k \in GroupKeys(df) : MaxRaises(ColumnOf(Group(df, k), f))
GroupMax(df, f) == [k \in GroupKeys(df) |-> MaxPresent(ColumnOf(Group(df, k), f))]

RECURSIVE SortedKeys(_)
SortedKeys(S) ==
    IF S = {} THEN << >>
    ELSE LET least == CHOOSE k \in S : \A j \in S : k <= j
         IN << least >> \o SortedKeys(S \ {least})

(* Series.values.tolist(): the values in index order *)
ToList(series) == [i \in 1 .. Cardinality(DOMAIN series) |-> series[SortedKeys(DOMAIN series)[i]]]

RECURSIVE SumOf(_)
SumOf(q) == IF q = << >> THEN Num(0) ELSE FAdd(Head(q), SumOf(Tail(q)))

(* the mean with not-a-number entries kept *)
MeanKeepNaN(q) == IF q = << >> THEN NaN ELSE FDiv(SumOf(q), Num(Len(q)))

(* Series.mean(): not-a-number entries are skipped; nan when none is left *)
Mean(q) ==
    LET kept == SelectSeq(q, LAMBDA v : ~IsNaN(v))
    IN IF kept = << >> THEN NaN ELSE FDiv(SumOf(kept), Num(Len(kept)))

(* ------------------------------------------------------------------ steps *)
Steps ==
    << "read_excel", "clean_columns", "to_numeric", "candidates", "dropna",
       "chart1", "chart2", "chart3", "chart4", "chart5", "chart6",
       "gain_heart_rate", "gain_energy", "gain_clarity", "gain_anxiety", "gain_pain",
       "gain_posture", "gain_mood", "print", "done" >>

StepNo(label) == CHOOSE i \in DOMAIN Steps : Steps[i] = label
After(label) == Steps[StepNo(label) + 1]

Init ==
    /\ pc = "read_excel"
    /\ err = ""
    /\ columns = [f \in Field |-> << >>]
    /\ cleanings = 0
    /\ df_new = << >>
    /\ candidates = << >>
    /\ colors = << >>
    /\ df_cleaned_heart_rate = << >>
    /\ energy_pivot = << >>
    /\ df_candidate = << >>
    /\ x_new = [lo |-> NaN, hi |-> NaN, num |-> 0]
    /\ curves = << >>
    /\ figures = << >>
    /\ overall_posture_correction_normalized = << >>
    /\ categories = << >>
    /\ N = 0
    /\ values = << >>
    /\ angles = << >>
    /\ initial = << >>
    /\ final = << >>
    /\ change = << >>
    /\ percentage_gains = << >>
    /\ stdout = << >>

(* the file: a sheet under good headers, the plain sheet under any header  *)
(* row, or no file at all                                                   *)
InitRun ==
    /\ Init
    /\ \/ \E m \in 0 .. NumCandidates :
            \E ps \in [1 .. m -> Profiles] :
                xls = [exists |-> TRUE, header |-> GoodHeaders,
                       sheet |-> Content(ps, Ascending(m), FALSE)]
       \/ \E m \in 1 .. NumCandidates :
            \E ps \in [1 .. m -> PostureProfiles] :
                \/ xls = [exists |-> TRUE, header |-> GoodHeaders,
                          sheet |-> Content(ps, Descending(m), FALSE)]
                \/ xls = [exists |-> TRUE, header |-> GoodHeaders,
                          sheet |-> Content(ps, Ascending(m), TRUE)]
       \/ \E h \in HeaderRows :
            xls = [exists |-> TRUE, header |-> h, sheet |-> PlainSheet]
       \/ xls = [exists |-> FALSE, header |-> GoodHeaders, sheet |-> PlainSheet]

(* a statement that runs although an earlier one raised *)
RunningAnyway(label) == pc = label

(* the statement at label runs when control is there and nothing has raised *)
Running(label) == pc = label /\ err = ""

(* line 17 *)
ReadExcel ==
    /\ Running("read_excel")
    /\ IF xls.exists
       THEN /\ columns' = xls.header
            /\ df_new' = Rows(xls.sheet)
            /\ pc' = After(pc)
            /\ err' = err
       ELSE /\ err' = "FileNotFoundError"
            /\ UNCHANGED << columns, df_new, pc >>
    /\ UNCHANGED << xls, change, cleanings, candidates, colors, df_cleaned_heart_rate,
                   energy_pivot, df_candidate, x_new, curves, figures,
                   overall_posture_correction_normalized, categories, N,
                   values, angles, initial, final, percentage_gains, stdout >>

(* line 20 *)
CleanColumns ==
    /\ Running("clean_columns")
    /\ columns' = [f \in DOMAIN columns |-> CleanHeader(columns[f])]
    /\ cleanings' = cleanings + 1
    /\ pc' = After(pc)
    /\ UNCHANGED << xls, change, err, df_new, candidates, colors,
                   df_cleaned_heart_rate, energy_pivot, df_candidate, x_new,
                   curves, figures, overall_posture_correction_normalized,
                   categories, N, values, angles, initial, final,
                   percentage_gains, stdout >>

(* pd.to_numeric(..., errors='coerce'), for one cell *)
Numerals == << "0", "1", "2", "3", "4", "5", "6", "7", "8", "9", "10" >>
ToNumericCell(v) ==
    IF ~IsStr(v) THEN v
    ELSE IF \E i \in DOMAIN Numerals : Numerals[i] = v.s
         THEN Num((CHOOSE i \in DOMAIN Numerals : Numerals[i] = v.s) - 1)
         ELSE NaN

Coerced == << "Energy", "Mood", "Clarity", "Anxiety", "Pain" >>

RECURSIVE ToNumericFrom(_, _)
(* lines 23-27 from the k-th on, up to the first column that is not there *)
ToNumericFrom(df, k) ==
    IF k > Len(Coerced) \/ ~HasColumn(Coerced[k]) THEN df
    ELSE LET g == FieldOf(Coerced[k])
         IN ToNumericFrom([i \in DOMAIN df |-> [df[i] EXCEPT ![g] = ToNumericCell(@)]],
                          k + 1)

(* lines 23-27 *)
ToNumeric ==
    /\ Running("to_numeric")
    /\ df_new' = ToNumericFrom(df_new, 1)
    /\ IF \A k \in DOMAIN Coerced : HasColumn(Coerced[k])
       THEN pc' = After(pc) /\ err' = err
       ELSE pc' = pc /\ err' = "KeyError"
    /\ UNCHANGED << xls, change, columns, cleanings, candidates, colors,
                   df_cleaned_heart_rate, energy_pivot, df_candidate, x_new,
                   curves, figures, overall_posture_correction_normalized,
                   categories, N, values, angles, initial, final,
                   percentage_gains, stdout >>

(* lines 30-31 *)
Candidates ==
    /\ Running("candidates")
    /\ IF HasColumn("Candidate")
       THEN /\ candidates' = Unique(ColumnOf(df_new, "Candidate"), {})
            /\ colors' = [i \in 1 .. Len(candidates') |-> i]
            /\ pc' = After(pc)
            /\ err' = err
       ELSE /\ err' = "KeyError"
            /\ UNCHANGED << candidates, colors, pc >>
    /\ UNCHANGED << xls, change, columns, cleanings, df_new, df_cleaned_heart_rate,
                   energy_pivot, df_candidate, x_new, curves, figures,
                   overall_posture_correction_normalized, categories, N,
                   values, angles, initial, final, percentage_gains, stdout >>

(* line 34 *)
DropNaHeartRate ==
    /\ Running("dropna")
    /\ IF HasColumn("HeartRate")
       THEN /\ df_cleaned_heart_rate' = DropNa(df_new, "HeartRate")
            /\ pc' = After(pc)
            /\ err' = err
       ELSE /\ err' = "KeyError"
            /\ UNCHANGED << df_cleaned_heart_rate, pc >>
    /\ UNCHANGED << xls, change, columns, cleanings, df_new, candidates, colors,
                   energy_pivot, df_candidate, x_new, curves, figures,
                   overall_posture_correction_normalized, categories, N,
                   values, angles, initial, final, percentage_gains, stdout >>

(* ----------------------------------------------------------------- charts *)
(* pivot_table(index='Day', columns='Candidate', values=...): the mean of   *)
(* the present values of each (day, candidate) that has one                 *)
PivotCells(df, f) ==
    LET day == FieldOf("Day")
        cand == FieldOf("Candidate")
        g == FieldOf(f)
    IN {<< df[i][day], df[i][cand] >> :
            i \in {j \in DOMAIN df :
                    IsNum(df[j][day]) /\ IsNum(df[j][cand]) /\ IsNum(df[j][g])}}

PivotTable(df, f) ==
    [dc \in PivotCells(df, f) |->
        Mean(ColumnOf(WhereEq(WhereEq(df, "Day", dc[1]), "Candidate", dc[2]), f))]

(* lines 37-45: the heatmap cannot take its colour range from an empty grid *)
Chart1 ==
    /\ Running("chart1")
    /\ IF ~HasColumn("Day")
       THEN /\ err' = "KeyError"
            /\ UNCHANGED << energy_pivot, figures, pc >>
       ELSE /\ energy_pivot' = PivotTable(df_new, "Energy")
            /\ IF PivotCells(df_new, "Energy") = {}
               THEN /\ err' = "ValueError"
                    /\ UNCHANGED << figures, pc >>
               ELSE /\ figures' = Append(figures, "Energy Levels Over Time")
                    /\ pc' = After(pc)
                    /\ err' = err
    /\ UNCHANGED << xls, change, columns, cleanings, df_new, candidates, colors,
                   df_cleaned_heart_rate, df_candidate, x_new, curves,
                   overall_posture_correction_normalized, categories, N,
                   values, angles, initial, final, percentage_gains, stdout >>

(* lines 48-54 *)
Chart2 ==
    /\ Running("chart2")
    /\ figures' = Append(figures, "Distribution of Mood Levels")
    /\ pc' = After(pc)
    /\ UNCHANGED << xls, change, err, columns, cleanings, df_new, candidates, colors,
                   df_cleaned_heart_rate, energy_pivot, df_candidate, x_new,
                   curves, overall_posture_correction_normalized, categories,
                   N, values, angles, initial, final, percentage_gains,
                   stdout >>

(* the slice left in df_candidate by "for candidate in candidates" *)
LastSlice(old) ==
    IF candidates = << >> THEN old
    ELSE WhereEq(df_new, "Candidate", candidates[Len(candidates)])

(* lines 57-67 *)
Chart3 ==
    /\ Running("chart3")
    /\ df_candidate' = LastSlice(df_candidate)
    /\ figures' = Append(figures, "Mental Clarity Levels Over Time")
    /\ pc' = After(pc)
    /\ UNCHANGED << xls, change, err, columns, cleanings, df_new, candidates, colors,
                   df_cleaned_heart_rate, energy_pivot, x_new, curves,
                   overall_posture_correction_normalized, categories, N,
                   values, angles, initial, final, percentage_gains, stdout >>

(* lines 70-80 *)
Chart4 ==
    /\ Running("chart4")
    /\ df_candidate' = LastSlice(df_candidate)
    /\ figures' = Append(figures, "Anxiety Levels Over Time")
    /\ pc' = After(pc)
    /\ UNCHANGED << xls, change, err, columns, cleanings, df_new, candidates, colors,
                   df_cleaned_heart_rate, energy_pivot, x_new, curves,
                   overall_posture_correction_normalized, categories, N,
                   values, angles, initial, final, percentage_gains, stdout >>

MinOf(S) == CHOOSE v \in S : \A w \in S : Leq(v, w)

(* np.linspace(days.min(), days.max(), 300); min and max of nothing are nan *)
LinSpace(days) ==
    IF days = << >> THEN [lo |-> NaN, hi |-> NaN, num |-> SplinePoints]
    ELSE [lo |-> MinOf(SeqToSet(days)), hi |-> MaxOf(SeqToSet(days)), num |-> SplinePoints]

(* make_interp_spline(x, y, k=3) needs more than k points and x strictly    *)
(* increasing                                                               *)
SplineRaises(x) ==
    \/ Len(x) < SplineDegree + 1
    \/ \E i \in 1 .. Len(x) - 1 : Leq(x[i + 1], x[i])

(* lines 85-91, for the next candidate *)
Chart5Curve ==
    /\ Running("chart5")
    /\ Len(curves) < Len(candidates)
    /\ LET candidate == candidates[Len(curves) + 1]
           slice == DropNa(WhereEq(df_new, "Candidate", candidate), "HeartRate")
       IN /\ df_candidate' = slice
          /\ x_new' = LinSpace(ColumnOf(slice, "Day"))
          /\ IF SplineRaises(ColumnOf(slice, "Day"))
             THEN err' = "ValueError" /\ curves' = curves
             ELSE err' = err /\ curves' = Append(curves, candidate)
    /\ UNCHANGED << xls, change, pc, columns, cleanings, df_new, candidates, colors,
                   df_cleaned_heart_rate, energy_pivot, figures,
                   overall_posture_correction_normalized, categories, N,
                   values, angles, initial, final, percentage_gains, stdout >>

(* lines 93-98 *)
Chart5Show ==
    /\ Running("chart5")
    /\ Len(curves) = Len(candidates)
    /\ figures' = Append(figures, "Heart Rate Trend (Smooth Spline Plot)")
    /\ pc' = After(pc)
    /\ UNCHANGED << xls, change, err, columns, cleanings, df_new, candidates, colors,
                   df_cleaned_heart_rate, energy_pivot, df_candidate, x_new,
                   curves, overall_posture_correction_normalized, categories,
                   N, values, angles, initial, final, percentage_gains,
                   stdout >>

(* the middle category misspelt in the mapping *)
ReplacePostureTypo(v) ==
    IF v = Deg1 THEN Num(1)
    ELSE IF v = Deg5 THEN Num(5)
    ELSE v

(* lines 102-106, for one cell *)
ReplacePosture(v) ==
    IF v = Deg1 THEN Num(1)
    ELSE IF v = Deg3 THEN Num(3)
    ELSE IF v = Deg5 THEN Num(5)
    ELSE v

ReplacedPosture(df) ==
    LET g == FieldOf("Posture")
    IN [i \in DOMAIN df |-> [df[i] EXCEPT ![g] = ReplacePosture(@)]]

(* the list left open *)
NotClosed(list) == list

(* values += values[:1] *)
Closed(list) == list \o SubSeq(list, 1, IF list = << >> THEN 0 ELSE 1)

(* n / float(N) * 2 * pi for n in range(N), as fractions of the full turn *)
Angles(count) == [n \in 1 .. count |-> Norm(n - 1, count)]

(* lines 102-130.  A polygon whose values hold text is drawn or refused,    *)
(* depending on the plotting library.                                       *)
Chart6 ==
    /\ Running("chart6")
    /\ IF ~HasColumn("Posture")
       THEN /\ err' = "KeyError"
            /\ UNCHANGED << df_new, overall_posture_correction_normalized, categories,
                            N, values, angles, figures, pc >>
       ELSE LET replaced == ReplacedPosture(df_new)
                series == GroupMax(replaced, "Posture")
            IN /\ df_new' = replaced
               /\ IF GroupMaxRaises(replaced, "Posture")
                  THEN /\ err' = "TypeError"
                       /\ UNCHANGED << overall_posture_correction_normalized, categories,
                                       N, values, angles, figures, pc >>
                  ELSE /\ overall_posture_correction_normalized' = series
                       /\ categories' = SortedKeys(DOMAIN series)
                       /\ N' = Len(categories')
                       /\ values' = Closed(ToList(series))
                       /\ angles' = Closed(Angles(N'))
                       /\ \/ /\ figures' = Append(figures, "radar")
                             /\ pc' = After(pc)
                             /\ err' = err
                          \/ /\ \E i \in DOMAIN values' : IsStr(values'[i])
                             /\ err' = "TypeError"
                             /\ UNCHANGED << figures, pc >>
    /\ UNCHANGED << xls, change, columns, cleanings, candidates, colors,
                   df_cleaned_heart_rate, energy_pivot, df_candidate, x_new,
                   curves, initial, final, percentage_gains, stdout >>

(* ---------------------------------------------------------------- summary *)
(* the six metrics sampled on the first and the last row of a candidate *)
Sampled ==
    [gain_heart_rate |->
        [f |-> "HeartRate", key |-> "Heart Rate Reduction (%)", kind |-> "reduction"],
     gain_energy |->
        [f |-> "Energy", key |-> "Energy Level Increase (%)", kind |-> "increase"],
     gain_clarity |->
        [f |-> "Clarity", key |-> "Mental Clarity Increase (%)", kind |-> "increase"],
     gain_anxiety |->
        [f |-> "Anxiety", key |-> "Anxiety Reduction (%)", kind |-> "reduction"],
     gain_pain |->
        [f |-> "Pain", key |-> "Pain Reduction (%)", kind |-> "reduction"],
     gain_mood |->
        [f |-> "Mood", key |-> "Mood Improvement (%)", kind |-> "increase"]]

PostureKey == "Posture Improvement (%)"

(* the change taken as final - initial whatever the metric *)
PercentChangeUnoriented(kind, ini, fin) == FMul(FDiv(FSub(fin, ini), ini), Num(100))

(* (initial - final) / initial * 100 and (final - initial) / initial * 100 *)
PercentChange(kind, ini, fin) ==
    FMul(FDiv(IF kind = "reduction" THEN FSub(ini, fin) ELSE FSub(fin, ini), ini),
         Num(100))

(* a new key put in front of the others *)
SetItemFront(d, key, value) == << [key |-> key, value |-> value] >> \o d

(* d[key] = value on a dict kept as its items in insertion order *)
SetItem(d, key, value) ==
    IF \E i \in DOMAIN d : d[i].key = key
    THEN [i \in DOMAIN d |-> IF d[i].key = key THEN [key |-> key, value |-> value] ELSE d[i]]
    ELSE Append(d, [key |-> key, value |-> value])

Bind(m, name, series) ==
    [x \in DOMAIN m \cup {name} |-> IF x = name THEN series ELSE m[x]]

(* lines 136-139, 142-145, 148-151, 154-157, 160-163 and 172-175 *)
SampledGain ==
    /\ pc \in DOMAIN Sampled
    /\ Running(pc)
    /\ LET g == Sampled[pc]
           ini == GroupFirst(df_new, g.f)
           fin == GroupLast(df_new, g.f)
           series == [k \in DOMAIN ini |-> PercentChange(g.kind, ini[k], fin[k])]
       IN /\ initial' = Bind(initial, g.f, ini)
          /\ final' = Bind(final, g.f, fin)
          /\ change' = Bind(change, g.f, series)
          /\ percentage_gains' = SetItem(percentage_gains, g.key, Mean(ToList(series)))
    /\ pc' = After(pc)
    /\ UNCHANGED << xls, err, columns, cleanings, df_new, candidates, colors,
                   df_cleaned_heart_rate, energy_pivot, df_candidate, x_new,
                   curves, figures, overall_posture_correction_normalized,
                   categories, N, values, angles, stdout >>

(* (final_posture - initial_posture) / 5 * 100 *)
PostureChange(fin) ==
    FMul(FDiv(FSub(fin, Num(InitialPosture)), Num(PostureScale)), Num(100))

(* lines 166-169: text cannot be subtracted from *)
PostureGain ==
    /\ Running("gain_posture")
    /\ IF GroupMaxRaises(df_new, "Posture")
       THEN /\ err' = "TypeError"
            /\ UNCHANGED << final, change, percentage_gains, pc >>
       ELSE LET fin == GroupMax(df_new, "Posture")
                series == [k \in DOMAIN fin |-> PostureChange(fin[k])]
            IN /\ final' = Bind(final, "Posture", fin)
               /\ IF \E k \in DOMAIN fin : IsStr(fin[k])
                  THEN /\ err' = "TypeError"
                       /\ UNCHANGED << change, percentage_gains, pc >>
                  ELSE /\ change' = Bind(change, "Posture", series)
                       /\ percentage_gains' =
                            SetItem(percentage_gains, PostureKey, Mean(ToList(series)))
                       /\ pc' = After(pc)
                       /\ err' = err
    /\ UNCHANGED << xls, columns, cleanings, df_new, candidates, colors,
                   df_cleaned_heart_rate, energy_pivot, df_candidate, x_new,
                   curves, figures, overall_posture_correction_normalized,
                   categories, N, values, angles, initial, stdout >>

(* line 178 *)
PrintGains ==
    /\ Running("print")
    /\ stdout' = Append(stdout, percentage_gains)
    /\ pc' = After(pc)
    /\ UNCHANGED << xls, change, err, columns, cleanings, df_new, candidates, colors,
                   df_cleaned_heart_rate, energy_pivot, df_candidate, x_new,
                   curves, figures, overall_posture_correction_normalized,
                   categories, N, values, angles, initial, final,
                   percentage_gains >>

Next ==
    \/ ReadExcel
    \/ CleanColumns
    \/ ToNumeric
    \/ Candidates
    \/ DropNaHeartRate
    \/ Chart1
    \/ Chart2
    \/ Chart3
    \/ Chart4
    \/ Chart5Curve
    \/ Chart5Show
    \/ Chart6
    \/ SampledGain
    \/ PostureGain
    \/ PrintGains

Spec == InitRun /\ [][Next]_vars

(* ------------------------------------------- the header cleaning on its own *)
Alphabet == {" ", "\n", "[", "]", "a"}

RECURSIVE Texts(_)
(* every text of at most n characters *)
Texts(n) ==
    IF n = 0 THEN {<< >>}
    ELSE Texts(n - 1) \cup {Append(h, ch) : h \in Texts(n - 1), ch \in Alphabet}

(* a header row of one text of at most MaxLen characters, or of two shorter ones *)
HeaderTexts ==
    {<< h >> : h \in Texts(MaxLen)}
    \cup {<< h, g >> : h \in Texts(MaxLen - 1), g \in Texts(MaxLen - 1)}

InitHeaders ==
    /\ \E h \in HeaderTexts : xls = [exists |-> TRUE, header |-> h, sheet |-> PlainSheet]
    /\ Init

(* the file's header row, before any cleaning *)
ReadHeaders ==
    /\ Running("read_excel")
    /\ columns' = xls.header
    /\ pc' = After(pc)
    /\ UNCHANGED << xls, change, err, cleanings, df_new, candidates, colors,
                   df_cleaned_heart_rate, energy_pivot, df_candidate, x_new,
                   curves, figures, overall_posture_correction_normalized,
                   categories, N, values, angles, initial, final,
                   percentage_gains, stdout >>

(* line 20, applied to its own result as often as asked *)
CleanAgain ==
    /\ Running("clean_columns")
    /\ cleanings < 2
    /\ columns' = [f \in DOMAIN columns |-> CleanHeader(columns[f])]
    /\ cleanings' = cleanings + 1
    /\ UNCHANGED << xls, change, pc, err, df_new, candidates, colors,
                   df_cleaned_heart_rate, energy_pivot, df_candidate, x_new,
                   curves, figures, overall_posture_correction_normalized,
                   categories, N, values, angles, initial, final,
                   percentage_gains, stdout >>

NextHeaders ==
    \/ ReadHeaders
    \/ CleanAgain

SpecHeaders == InitHeaders /\ [][NextHeaders]_vars

(* ================================================================= claims *)
Keys(d) == [i \in DOMAIN d |-> d[i].key]
HasKey(d, key) == \E i \in DOMAIN d : d[i].key = key
GainOf(d, key) == d[CHOOSE i \in DOMAIN d : d[i].key = key].value

SevenKeys ==
    << "Heart Rate Reduction (%)", "Energy Level Increase (%)",
       "Mental Clarity Increase (%)", "Anxiety Reduction (%)", "Pain Reduction (%)",
       "Posture Improvement (%)", "Mood Improvement (%)" >>

SixTitles ==
    << "Energy Levels Over Time", "Distribution of Mood Levels",
       "Mental Clarity Levels Over Time", "Anxiety Levels Over Time",
       "Heart Rate Trend (Smooth Spline Plot)", "radar" >>

IsPrefix(a, b) == Len(a) <= Len(b) /\ a = SubSeq(b, 1, Len(a))

RECURSIVE Total(_, _)
(* the sum of a series over the candidates in S *)
Total(series, S) ==
    IF S = {} THEN Num(0)
    ELSE LET k == CHOOSE j \in S : TRUE
         IN FAdd(series[k], Total(series, S \ {k}))

(* how far the value moved in the direction the metric counts as a gain *)
Gain(kind, ini, fin) == IF kind = "reduction" THEN ini.n - fin.n ELSE fin.n - ini.n

(* C1: for every candidate and sampled metric with a positive first value,  *)
(* the candidate's percentage is 100 * (final - initial) / initial for an   *)
(* increase metric and 100 * (initial - final) / initial for a reduction    *)
(* metric: positive exactly when the value rose (fell), and 50 for 10 -> 15 *)
(* (10 -> 5).  The metric's scalar is the mean of the candidates'           *)
(* percentages, those that are not-a-number left out.                       *)
C1_PercentageGain ==
    \A label \in DOMAIN Sampled :
        LET g == Sampled[label]
        IN g.f \in DOMAIN change =>
            /\ \A k \in DOMAIN change[g.f] :
                LET ini == initial[g.f][k]
                    fin == final[g.f][k]
                    pct == change[g.f][k]
                IN (IsNum(ini) /\ IsNum(fin) /\ ini.d = 1 /\ fin.d = 1 /\ ini.n > 0) =>
                    /\ IsNum(pct)
                    /\ pct.n * ini.n = 100 * Gain(g.kind, ini, fin) * pct.d
                    /\ (pct.n > 0) <=> (Gain(g.kind, ini, fin) > 0)
                    /\ (g.kind = "increase" /\ ini = Num(10) /\ fin = Num(15)) => pct = Num(50)
                    /\ (g.kind = "reduction" /\ ini = Num(10) /\ fin = Num(5)) => pct = Num(50)
            /\ LET series == change[g.f]
                   defined == {k \in DOMAIN series : ~IsNaN(series[k])}
                   scalar == GainOf(percentage_gains, g.key)
               IN /\ HasKey(percentage_gains, g.key)
                  /\ IF defined = {} THEN IsNaN(scalar)
                     ELSE IF \A k \in defined : IsNum(series[k])
                     THEN /\ IsNum(scalar)
                          /\ FMul(scalar, Num(Cardinality(defined))) = Total(series, defined)
                     ELSE ~IsNum(scalar)

(* a finished run in which one candidate went 10 -> 15 on energy and one    *)
(* went 10 -> 5 on anxiety, each a gain of 50                               *)
C1_Witness ==
    /\ pc = "done"
    /\ \E k \in DOMAIN change["Energy"] :
            /\ initial["Energy"][k] = Num(10)
            /\ final["Energy"][k] = Num(15)
            /\ change["Energy"][k] = Num(50)
    /\ \E k \in DOMAIN change["Anxiety"] :
            /\ initial["Anxiety"][k] = Num(10)
            /\ final["Anxiety"][k] = Num(5)
            /\ change["Anxiety"][k] = Num(50)
    /\ Cardinality(DOMAIN change["Energy"]) > 1

(* the rows of candidate k, as the summary sees them *)
RowsOf(df, k) == SelectSeq(df, LAMBDA r : r.Candidate = Num(k))

(* the value of column f on the earliest and on the latest day on which    *)
(* candidate k has one                                                      *)
OnFirstDay(df, k, f) ==
    LET rows == SelectSeq(RowsOf(df, k), LAMBDA r : ~IsNaN(r[f]))
        i == CHOOSE j \in DOMAIN rows : \A h \in DOMAIN rows : Leq(rows[j].Day, rows[h].Day)
    IN IF rows = << >> THEN NaN ELSE rows[i][f]
OnLastDay(df, k, f) ==
    LET rows == SelectSeq(RowsOf(df, k), LAMBDA r : ~IsNaN(r[f]))
        i == CHOOSE j \in DOMAIN rows : \A h \in DOMAIN rows : Leq(rows[h].Day, rows[j].Day)
    IN IF rows = << >> THEN NaN ELSE rows[i][f]

(* C2: for every sampled metric and candidate, the initial value the        *)
(* summary uses is the candidate's value on the first day it was recorded   *)
(* and the final value is the value on the last day it was recorded,        *)
(* however the rows are ordered.                                            *)
C2_FirstAndLastDay ==
    \A f \in DOMAIN initial :
        \A k \in DOMAIN initial[f] :
            /\ initial[f][k] = OnFirstDay(df_new, k, f)
            /\ final[f][k] = OnLastDay(df_new, k, f)

(* C3: the dict is only ever appended to, key by key in the fixed order of  *)
(* the seven labels, and what is printed holds exactly the seven, in order. *)
C3_SevenKeysInOrder ==
    /\ [](/\ IsPrefix(Keys(percentage_gains), SevenKeys)
          /\ \A i \in DOMAIN stdout : Keys(stdout[i]) = SevenKeys)
    /\ [][IsPrefix(Keys(percentage_gains), Keys(percentage_gains'))]_vars

C3_Witness == pc = "done" /\ Len(stdout) = 1 /\ Len(stdout[1]) = 7

(* a sheet of 2 candidates with days 1 to 5 each, entered in day order,     *)
(* every metric cell a number and every posture cell one of the three       *)
(* categories                                                               *)
IsPopulated(v) == IsNum(v) \/ (IsStr(v) /\ ToNumericCell(v) # NaN)
FullScenario ==
    LET rows == Rows(xls.sheet)
    IN /\ xls.exists
       /\ xls.header = GoodHeaders
       /\ {rows[i].Candidate : i \in DOMAIN rows} = {Num(1), Num(2)}
       /\ \A k \in {1, 2} :
            {rows[i].Day : i \in {j \in DOMAIN rows : rows[j].Candidate = Num(k)}}
                = {Num(d) : d \in 1 .. 5}
       /\ Len(rows) = 10
       /\ \A i, j \in DOMAIN rows :
            (i < j /\ rows[i].Candidate = rows[j].Candidate)
                => ~Leq(rows[j].Day, rows[i].Day)
       /\ \A i \in DOMAIN rows :
            /\ \A f \in {"Energy", "Mood", "Clarity", "Anxiety", "Pain", "HeartRate"} :
                    IsPopulated(rows[i][f])
            /\ rows[i].Posture \in {Deg1, Deg3, Deg5}

(* C4: on such a sheet the run completes and the mapping has all 7 keys,    *)
(* every value finite.                                                      *)
C4_AllFinite ==
    FullScenario =>
        /\ err = ""
        /\ pc = "done" =>
            /\ Keys(percentage_gains) = SevenKeys
            /\ \A i \in DOMAIN percentage_gains : IsFinite(percentage_gains[i].value)

(* out holds exactly the rows of src with a heart rate, in src's order *)
ExactlyThePresent(src, out) ==
    /\ \A i \in DOMAIN out : ~IsNaN(out[i].HeartRate) /\ \E j \in DOMAIN src : src[j] = out[i]
    /\ \A j \in DOMAIN src : IsNaN(src[j].HeartRate) <=> ~\E i \in DOMAIN out : out[i] = src[j]
    /\ \A i, j \in DOMAIN out : i < j => out[i].idx < out[j].idx

(* C5: the heart-rate filter (line 34, and line 86 on one candidate's rows) *)
(* returns exactly the rows whose heart rate is present, in their order,    *)
(* and leaves the table as it was.                                          *)
C5_HeartRateFilter ==
    [][/\ (Running("dropna") /\ pc' = "chart1") =>
            /\ ExactlyThePresent(df_new, df_cleaned_heart_rate')
            /\ df_new' = df_new
       /\ (Running("chart5") /\ pc' = "chart5") =>
            /\ ExactlyThePresent(
                    SelectSeq(df_new, LAMBDA r : /\ IsNum(r.Candidate)
                                                 /\ r.Candidate = candidates[Len(curves) + 1]),
                    df_candidate')
            /\ df_new' = df_new]_vars

(* the filter has run on a table with and without heart rates *)
C5_Witness ==
    /\ pc = "chart1"
    /\ df_cleaned_heart_rate # << >>
    /\ Len(df_cleaned_heart_rate) < Len(df_new)
    /\ \E i \in DOMAIN df_new : i > 1 /\ i < Len(df_new) /\ IsNaN(df_new[i].HeartRate)

(* g is h without its leading and trailing whitespace *)
IsStripOf(g, h) ==
    \E a, b \in 0 .. Len(h) :
        /\ a + b <= Len(h)
        /\ g = SubSeq(h, a + 1, Len(h) - b)
        /\ \A i \in 1 .. a : h[i] \in Whitespace
        /\ \A i \in (Len(h) - b + 1) .. Len(h) : h[i] \in Whitespace
        /\ g # << >> => (g[1] \notin Whitespace /\ g[Len(g)] \notin Whitespace)

(* C6 as stated: cleaning the cleaned headers again changes nothing.        *)
C6_Idempotent == [][cleanings = 1 => columns' = columns]_vars

(* C6 as amended: cleaning the cleaned headers again removes the whitespace *)
(* the first cleaning left at their ends and nothing else, so it changes    *)
(* nothing exactly on the headers that neither begin nor end with           *)
(* whitespace once cleaned.                                                 *)
C6_SecondCleaningOnlyStrips ==
    [][cleanings = 1 =>
        /\ DOMAIN columns' = DOMAIN columns
        /\ \A i \in DOMAIN columns : IsStripOf(columns'[i], columns[i])]_vars

(* "[ a" cleaned once is " a" and cleaned twice is "a" *)
C6_Witness ==
    /\ cleanings = 2
    /\ xls.header = << << "[", " ", "a" >> >>
    /\ columns = << << "a" >> >>

(* C7: once the radar lists are built, there is one angular slot per        *)
(* candidate (per unique value of the candidate column), the angle and the  *)
(* value list are equally long, and each ends with its first element.       *)
C7_RadarClosed ==
    (values # << >> \/ \E i \in DOMAIN figures : figures[i] = "radar") =>
        /\ N = Len(candidates)
        /\ N = Cardinality({df_new[i].Candidate : i \in DOMAIN df_new})
        /\ Len(values) = N + 1
        /\ Len(angles) = Len(values)
        /\ values[Len(values)] = values[1]
        /\ angles[Len(angles)] = angles[1]
        /\ \A i, j \in 1 .. N : i # j => angles[i] # angles[j]

(* the radar of two candidates, entered in descending order, was shown *)
C7_Witness ==
    /\ \E i \in DOMAIN figures : figures[i] = "radar"
    /\ N = 2
    /\ candidates = << Num(2), Num(1) >>
    /\ values[1] # values[2]

(* the figures shown by the time control is at label *)
ShownBy(label) ==
    LET done == StepNo(label) - StepNo("chart1")
    IN SubSeq(SixTitles, 1, IF done < 0 THEN 0 ELSE IF done > 6 THEN 6 ELSE done)

(* C8: control moves one statement at a time through the fixed order; a     *)
(* statement that raises leaves control where it is and nothing runs after  *)
(* it; each figure is shown by its own step, and the mapping is printed     *)
(* only after all six were shown and nothing raised.                        *)
C8_StepsInOrder ==
    /\ [](/\ figures = ShownBy(pc)
          /\ stdout # << >> => (figures = SixTitles /\ err = "" /\ pc = "done"))
    /\ [][/\ err = ""
          /\ pc' = pc \/ pc' = After(pc)
          /\ pc' # pc => err' = ""]_vars

(* the spline fit raised for a candidate: four figures shown, nothing later *)
C8_Witness ==
    /\ err = "ValueError"
    /\ pc = "chart5"
    /\ Len(df_candidate) < SplineDegree + 1
    /\ Len(figures) = 4
    /\ percentage_gains = << >>

(* C9 as stated: a zero initial value of any candidate makes the metric's   *)
(* scalar non-finite, whatever the other values are.                        *)
C9_ZeroBaselineNonFinite ==
    \A label \in DOMAIN Sampled :
        LET g == Sampled[label]
        IN (g.f \in DOMAIN initial /\ \E k \in DOMAIN initial[g.f] : initial[g.f][k] = Num(0))
            => /\ HasKey(percentage_gains, g.key)
               /\ ~IsFinite(GainOf(percentage_gains, g.key))

(* C9 as amended: with a zero initial value the step raises nothing; the    *)
(* scalar is non-finite when some zero-baseline candidate's final value is  *)
(* not zero; when all of them ended at zero they are not-a-number and left  *)
(* out of the mean, and the scalar is finite exactly when another candidate *)
(* has an initial value.                                                    *)
C9_ZeroBaseline ==
    \A label \in DOMAIN Sampled :
        LET g == Sampled[label]
            zero == {k \in DOMAIN initial[g.f] : initial[g.f][k] = Num(0)}
            scalar == GainOf(percentage_gains, g.key)
        IN (g.f \in DOMAIN initial /\ zero # {}) =>
            /\ HasKey(percentage_gains, g.key)
            /\ (\E k \in zero : final[g.f][k] # Num(0)) => ~IsFinite(scalar)
            /\ (\A k \in zero : final[g.f][k] = Num(0)) =>
                (IsFinite(scalar) <=>
                    \E k \in DOMAIN initial[g.f] \ zero : IsNum(initial[g.f][k]))

(* one candidate went 0 -> 0 on anxiety, another had a baseline, and the    *)
(* printed scalar is finite                                                 *)
C9_Witness ==
    /\ pc = "done"
    /\ \E k \in DOMAIN initial["Anxiety"] :
            initial["Anxiety"][k] = Num(0) /\ final["Anxiety"][k] = Num(0)
    /\ IsFinite(GainOf(percentage_gains, "Anxiety Reduction (%)"))

AllThreeCategories ==
    \A c \in DOMAIN xls.sheet.ps :
        \A i \in 1 .. xls.sheet.ps[c].n :
            Block(Num(c), xls.sheet.ps[c])[i].Posture \in {Deg1, Deg3, Deg5}

(* C10: the replace step turns the three category texts into 1, 3 and 5 and *)
(* leaves every other cell as it was; on a sheet whose posture cells are    *)
(* all among the three, every candidate's maximum is 1, 3 or 5 and the      *)
(* posture scalar lies between 20 and 100.                                  *)
C10_PostureMapping ==
    /\ [][(Running("chart6") /\ err' # "KeyError") =>
            /\ DOMAIN df_new' = DOMAIN df_new
            /\ \A i \in DOMAIN df_new :
                /\ df_new[i].Posture = Str("~1 degree") => df_new'[i].Posture = Num(1)
                /\ df_new[i].Posture = Str("~ greater than 3 degree")
                        => df_new'[i].Posture = Num(3)
                /\ df_new[i].Posture = Str("~ greater than 5 degrees")
                        => df_new'[i].Posture = Num(5)
                /\ df_new[i].Posture \notin
                        {Str("~1 degree"), Str("~ greater than 3 degree"),
                         Str("~ greater than 5 degrees")}
                        => df_new'[i].Posture = df_new[i].Posture
                /\ [df_new'[i] EXCEPT !.Posture = NaN] = [df_new[i] EXCEPT !.Posture = NaN]]_vars
    /\ [](AllThreeCategories =>
            /\ \A k \in DOMAIN overall_posture_correction_normalized :
                    overall_posture_correction_normalized[k] \in {Num(1), Num(3), Num(5)}
            /\ "Posture" \in DOMAIN final =>
                    \A k \in DOMAIN final["Posture"] :
                        final["Posture"][k] \in {Num(1), Num(3), Num(5)}
            /\ HasKey(percentage_gains, PostureKey) =>
                    /\ IsFinite(GainOf(percentage_gains, PostureKey))
                    /\ Leq(Num(20), GainOf(percentage_gains, PostureKey))
                    /\ Leq(GainOf(percentage_gains, PostureKey), Num(100)))

(* one candidate peaked at 1 and the other at 5: the scalar is 60 *)
C10_Witness ==
    /\ pc = "done"
    /\ AllThreeCategories
    /\ {final["Posture"][k] : k \in DOMAIN final["Posture"]} = {Num(1), Num(5)}
    /\ GainOf(percentage_gains, PostureKey) = Num(60)

====
